---- MODULE Spec2Model ----
(***************************************************************************)
(* Gaussian elimination of gaussian_elimination.py: row_echelon_form,      *)
(* remove_duplicate_row_echelon_form, solve_row_echelon_form,              *)
(* gauss_eliminate and rank, on list-of-lists matrices of integers.        *)
(*                                                                         *)
(* Numbers are exact rationals <<n, d>> (d > 0, lowest terms): Python's    *)
(* true division of the integer entries, without rounding.  Indices are    *)
(* 1-based: row/column i of the model is index i-1 of the source.  A       *)
(* matrix has at least two columns (one unknown and the right-hand side).  *)
(***************************************************************************)
EXTENDS Integers, Sequences, FiniteSets

VARIABLES A, fn, pc, L, i, R, ret

vars == <<A, fn, pc, L, i, R, ret>>

\* ------------------------------------------------------------- bounds
\* matrices of at most MaxRows x MaxCols and MaxCells entries; the entries
\* are -MaxVal..MaxVal in a matrix of at most MaxWideCells entries, 0..1 in
\* a larger one
MaxRows == 3
MaxCols == 4
MaxCells == 12
MaxVal == 2
MaxWideCells == 6

\* ------------------------------------------------------ exact numbers
AbsInt(n) == IF n < 0 THEN -n ELSE n

RECURSIVE GCD(_, _)
GCD(a, b) == IF b = 0 THEN a ELSE GCD(b, a % b)

\* the rational n/d in lowest terms with a positive denominator (d # 0)
Norm(n, d) ==
    LET g == GCD(AbsInt(n), AbsInt(d))
        s == IF d < 0 THEN -1 ELSE 1
    IN  <<(s * n) \div g, (s * d) \div g>>

Rat(n) == <<n, 1>>
Zero == <<0, 1>>
One == <<1, 1>>
\* the None entry of a solution vector
NoneVal == <<0, 0>>

IsZero(a) == a[1] = 0
RAdd(a, b) == Norm(a[1] * b[2] + b[1] * a[2], a[2] * b[2])
RNeg(a) == <<-a[1], a[2]>>
RSub(a, b) == RAdd(a, RNeg(b))
RMul(a, b) == Norm(a[1] * b[1], a[2] * b[2])
\* a / b for b # 0 (a zero divisor raises ZeroDivisionError, see the callers)
RDiv(a, b) == Norm(a[1] * b[2], a[2] * b[1])
RAbs(a) == <<AbsInt(a[1]), a[2]>>
RLess(a, b) == a[1] * b[2] < b[1] * a[2]
RMax(a, b) == IF RLess(a, b) THEN b ELSE a
\* x % 2 == 0 : x is an even integer
IsEven(a) == a[2] = 1 /\ a[1] % 2 = 0

\* ------------------------------------------------------------ matrices
NumRows(M) == Len(M)
NumCols(M) == Len(M[1])
Min(a, b) == IF a < b THEN a ELSE b

ToRat(M) == [r \in 1..Len(M) |-> [c \in 1..Len(M[r]) |-> Rat(M[r][c])]]

Vals(cells) == IF cells <= MaxWideCells THEN (-MaxVal)..MaxVal ELSE 0..1
Shapes == {s \in (0..MaxRows) \X (2..MaxCols) : s[1] * s[2] <= MaxCells}
Matrices ==
    UNION {[1..s[1] -> [1..s[2] -> Vals(s[1] * s[2])]] : s \in Shapes}

\* values handed back by the functions
NoneRet == [kind |-> "None", mat |-> <<>>, vec |-> <<>>, n |-> 0]
MatRet(M) == [kind |-> "matrix", mat |-> M, vec |-> <<>>, n |-> 0]
VecRet(x) == [kind |-> "vector", mat |-> <<>>, vec |-> x, n |-> 0]
IntRet(k) == [kind |-> "int", mat |-> <<>>, vec |-> <<>>, n |-> k]
Raise(e) == [kind |-> e, mat |-> <<>>, vec |-> <<>>, n |-> 0]
Pending == [kind |-> "pending", mat |-> <<>>, vec |-> <<>>, n |-> 0]

\* ---------------------------------------------------- row_echelon_form
\* lines 19-24: first row among i..num_rows with the largest |L[k][i]|
RECURSIVE MaxRowScan(_, _, _, _)
MaxRowScan(M, col, k, max_row) ==
    IF k > NumRows(M) THEN max_row
    ELSE IF RLess(RAbs(M[max_row][col]), RAbs(M[k][col]))
         THEN MaxRowScan(M, col, k + 1, k)
         ELSE MaxRowScan(M, col, k + 1, max_row)

\* no search: the pivot row stays where it is
MaxRow_NoPivoting(M, col) == col

MaxRow(M, col) == MaxRowScan(M, col, col + 1, col)

\* lines 27-30: exchange rows col and m in columns col..num_cols
SwapRows(M, col, m) ==
    [r \in 1..NumRows(M) |->
        [c \in 1..NumCols(M) |->
            IF c < col THEN M[r][c]
            ELSE IF r = col THEN M[m][c]
            ELSE IF r = m THEN M[col][c]
            ELSE M[r][c]]]

\* the guard of line 35 left out
PivotIsZero_Unguarded(M, col) == FALSE

\* line 35: the guard of the elimination of one row
PivotIsZero(M, col) == IsZero(M[col][col])

\* the inner loop started at i + 1: column i of row k is left as it was
EliminateRow_FromNextColumn(M, col, k) ==
    LET c == RNeg(RDiv(M[k][col], M[col][col]))
    IN  [j \in 1..NumCols(M) |->
            IF j <= col THEN M[k][j]
            ELSE RAdd(M[k][j], RMul(c, M[col][j]))]

\* lines 37-43: row k after adding c times row col
EliminateRow(M, col, k) ==
    LET c == RNeg(RDiv(M[k][col], M[col][col]))
    IN  [j \in 1..NumCols(M) |->
            IF j < col THEN M[k][j]
            ELSE IF j = col THEN Zero
            ELSE RAdd(M[k][j], RMul(c, M[col][j]))]

\* lines 33-43
Eliminate(M, col) ==
    [k \in 1..NumRows(M) |->
        IF k <= col \/ PivotIsZero(M, col) THEN M[k]
        ELSE EliminateRow(M, col, k)]

\* line 37 divides by L[i][i] for a row k below i that the guard lets through
EliminateDividesByZero(M, col) ==
    /\ col < NumRows(M)
    /\ ~PivotIsZero(M, col)
    /\ IsZero(M[col][col])

\* ------------------------------------ remove_duplicate_row_echelon_form
DelRow(M, j) == SubSeq(M, 1, j - 1) \o SubSeq(M, j + 1, Len(M))

\* lines 62-74: the two while loops, (ii, j) the loop indices
RECURSIVE DedupLoop(_, _, _)
DedupLoop(M, ii, j) ==
    IF ii > Len(M) THEN M
    ELSE IF j > Len(M) THEN DedupLoop(M, ii + 1, ii + 2)
    ELSE IF M[ii] = M[j] THEN DedupLoop(DelRow(M, j), ii, j + 1)
    ELSE DedupLoop(M, ii, j + 1)

remove_duplicate_row_echelon_form(M) == DedupLoop(M, 1, 2)

\* ------------------------------------------------ solve_row_echelon_form
\* line 102: the row inserted at position k
SyntheticRow(k, num_cols) ==
    [kk \in 1..num_cols |-> IF kk = k \/ kk = num_cols THEN One ELSE Zero]

InsertRow(M, k, row) == SubSeq(M, 1, k - 1) \o <<row>> \o SubSeq(M, k, Len(M))

\* lines 99-104: k runs over the row count on entry, M grows as rows go in
RECURSIVE CompleteBasis(_, _, _)
CompleteBasis(M, k, num_rows) ==
    IF k > num_rows THEN M
    ELSE IF IsZero(M[k][k])
         THEN CompleteBasis(InsertRow(M, k, SyntheticRow(k, NumCols(M))),
                            k + 1, num_rows)
         ELSE CompleteBasis(M, k + 1, num_rows)

\* line 114
ColumnIsZero(M, col) == \A row \in 1..NumRows(M) : IsZero(M[row][col])

RECURSIVE RowSum(_, _)
RowSum(row, upto) ==
    IF upto = 0 THEN Zero ELSE RAdd(RowSum(row, upto - 1), row[upto])

\* lines 120-124: the rows whose unknown columns sum to an even number
RECURSIVE EvenRows(_, _)
EvenRows(M, row) ==
    IF row > NumRows(M) THEN <<>>
    ELSE IF IsEven(RowSum(M[row], NumCols(M) - 1))
         THEN <<SubSeq(M[row], 1, NumCols(M) - 1)>> \o EvenRows(M, row + 1)
         ELSE EvenRows(M, row + 1)

RECURSIVE MaxAt(_, _, _)
MaxAt(xlist, ind, upto) ==
    IF upto = 1 THEN xlist[1][ind]
    ELSE RMax(MaxAt(xlist, ind, upto - 1), xlist[upto][ind])

\* lines 111-128: num_rows == num_cols - 2
OneShort(M) ==
    LET unknowns == NumCols(M) - 1
        zeroCols == {col \in 1..unknowns : ColumnIsZero(M, col)}
        xlist == EvenRows(M, 1)
    IN  IF zeroCols # {}
        THEN LET col == CHOOSE c \in zeroCols : \A d \in zeroCols : c <= d
             IN  VecRet([k \in 1..unknowns |-> IF k = col THEN One ELSE Zero])
        ELSE IF Len(xlist) = 0
        THEN Raise("IndexError")
        ELSE VecRet([ind \in 1..Len(xlist[1]) |-> MaxAt(xlist, ind, Len(xlist))])

\* line 144: the guard of the division of line 148
DiagIsZero(M, row, q) == IsZero(M[row][q])

\* += in place of -= on line 150
Substitute_Added(M, row, xi) ==
    LET last == NumCols(M)
    IN  [j \in 1..NumRows(M) |->
            IF j < row
            THEN [M[j] EXCEPT ![last] = RAdd(M[j][last], RMul(M[j][row], xi))]
            ELSE M[j]]

\* lines 149-150: the right-hand sides of the rows above row
Substitute(M, row, xi) ==
    LET last == NumCols(M)
    IN  [j \in 1..NumRows(M) |->
            IF j < row
            THEN [M[j] EXCEPT ![last] = RSub(M[j][last], RMul(M[j][row], xi))]
            ELSE M[j]]

\* lines 140-150, from row down to the first row
RECURSIVE BackSubstitute(_, _, _)
BackSubstitute(M, x, row) ==
    IF row = 0 THEN VecRet(x)
    ELSE LET q == Min(row, NumCols(M) - 1)
         IN  IF DiagIsZero(M, row, q)
             THEN BackSubstitute(M, DelRow(x, row), row - 1)
             ELSE IF IsZero(M[row][q])
             THEN Raise("ZeroDivisionError")
             ELSE LET xi == RDiv(M[row][NumCols(M)], M[row][q])
                  IN  IF row > 1 /\ row > NumCols(M)
                      THEN Raise("IndexError")
                      ELSE BackSubstitute(Substitute(M, row, xi),
                                          [x EXCEPT ![row] = xi], row - 1)

\* lines 91-104: the matrix after the synthetic rows went in
WithSyntheticRows(M0) ==
    IF NumRows(M0) < NumCols(M0) - 1
    THEN CompleteBasis(M0, 1, NumRows(M0))
    ELSE M0

\* lines 85-152 on a matrix
SolveMatrix(M0) ==
    IF NumRows(M0) = 0 THEN NoneRet
    ELSE LET M == WithSyntheticRows(M0)
             num_rows == NumRows(M)
             num_cols == NumCols(M)
         IN  IF num_rows < num_cols - 1
             THEN IF num_rows = num_cols - 2
                  THEN OneShort(M)
                  ELSE VecRet([k \in 1..num_rows |-> NoneVal])
             ELSE BackSubstitute(M, [k \in 1..num_rows |-> Zero], num_rows)

\* solve_row_echelon_form(r): len(None) raises TypeError
solve_row_echelon_form(r) ==
    IF r.kind = "None" THEN Raise("TypeError") ELSE SolveMatrix(r.mat)

\* ------------------------------------------------------------ rank
\* line 174
NonZeroRows(M) ==
    Cardinality({k \in 1..Len(M) : \E c \in 1..Len(M[k]) : ~IsZero(M[k][c])})

\* lines 172-174
RankOf(r) == IF r.kind = "None" THEN IntRet(0) ELSE IntRet(NonZeroRows(r.mat))

\* ------------------------------------------------------------ processes
Fns == {"row_echelon_form", "remove_duplicate_row_echelon_form",
        "solve_row_echelon_form", "gauss_eliminate", "rank"}
CallsReducer == {"row_echelon_form", "gauss_eliminate", "rank"}

Init ==
    /\ A \in Matrices
    /\ fn \in Fns
    /\ pc = "entry"
    /\ L = ToRat(A)
    /\ i = 0
    /\ R = Pending
    /\ ret = Pending

\* what row_echelon_form's return does in its caller
Returned(r) ==
    /\ R' = r
    /\ IF fn = "row_echelon_form"
       THEN pc' = "done" /\ ret' = r
       ELSE pc' = "returned" /\ ret' = ret

\* lines 11-15
RefEntry ==
    /\ pc = "entry"
    /\ fn \in CallsReducer
    /\ IF NumRows(L) = 0
       THEN Returned(NoneRet) /\ i' = i
       ELSE pc' = "pivot" /\ i' = 1 /\ UNCHANGED <<R, ret>>
    /\ UNCHANGED <<A, fn, L>>

\* lines 17-43, one pass of the loop over i
PivotStep ==
    /\ pc = "pivot"
    /\ i <= Min(NumCols(L), NumRows(L))
    /\ LET S == SwapRows(L, i, MaxRow(L, i))
       IN  IF EliminateDividesByZero(S, i)
           THEN /\ pc' = "done"
                /\ ret' = Raise("ZeroDivisionError")
                /\ UNCHANGED <<L, i>>
           ELSE /\ L' = Eliminate(S, i)
                /\ i' = i + 1
                /\ UNCHANGED <<pc, ret>>
    /\ UNCHANGED <<A, fn, R>>

\* lines 45-48
RefReturn ==
    /\ pc = "pivot"
    /\ i > Min(NumCols(L), NumRows(L))
    /\ L' = remove_duplicate_row_echelon_form(L)
    /\ Returned(MatRet(L'))
    /\ UNCHANGED <<A, fn, i>>

\* lines 162-163
GaussSolve ==
    /\ pc = "returned"
    /\ fn = "gauss_eliminate"
    /\ ret' = solve_row_echelon_form(R)
    /\ pc' = "done"
    /\ UNCHANGED <<A, fn, L, i, R>>

\* lines 171-174
RankCount ==
    /\ pc = "returned"
    /\ fn = "rank"
    /\ ret' = RankOf(R)
    /\ pc' = "done"
    /\ UNCHANGED <<A, fn, L, i, R>>

\* a direct call of solve_row_echelon_form on the matrix
SolveCall ==
    /\ pc = "entry"
    /\ fn = "solve_row_echelon_form"
    /\ ret' = solve_row_echelon_form(MatRet(L))
    /\ pc' = "done"
    /\ UNCHANGED <<A, fn, L, i, R>>

\* a direct call of remove_duplicate_row_echelon_form on the matrix
DedupCall ==
    /\ pc = "entry"
    /\ fn = "remove_duplicate_row_echelon_form"
    /\ L' = remove_duplicate_row_echelon_form(L)
    /\ ret' = MatRet(L')
    /\ pc' = "done"
    /\ UNCHANGED <<A, fn, i, R>>

Next ==
    \/ RefEntry
    \/ PivotStep
    \/ RefReturn
    \/ GaussSolve
    \/ RankCount
    \/ SolveCall
    \/ DedupCall

Spec == Init /\ [][Next]_vars

\* ------------------------------------------------- notions of the claims
Done(f) == pc = "done" /\ fn = f

\* the value of row_echelon_form is in hand
RefReturned == fn \in CallsReducer /\ pc \in {"returned", "done"}

RECURSIVE SetToSeq(_)
SetToSeq(S) ==
    IF S = {} THEN <<>>
    ELSE LET m == CHOOSE x \in S : \A y \in S : x <= y
         IN  <<m>> \o SetToSeq(S \ {m})

\* rows rs and columns cs (sequences of indices) of an integer matrix
SubMatrix(M, rs, cs) ==
    [r \in 1..Len(rs) |-> [c \in 1..Len(cs) |-> M[rs[r]][cs[c]]]]

\* determinant of a square integer matrix, expanded along its first row
RECURSIVE Det(_)
Det(M) ==
    IF Len(M) = 0 THEN 1
    ELSE LET n == Len(M)
             Rest(c) == SubMatrix(M, [r \in 1..(n - 1) |-> r + 1],
                                  SetToSeq((1..n) \ {c}))
             Sign(c) == IF c % 2 = 1 THEN 1 ELSE -1
             RECURSIVE Expand(_)
             Expand(c) == IF c = 0 THEN 0
                          ELSE Expand(c - 1) + Sign(c) * M[1][c] * Det(Rest(c))
         IN  Expand(n)

\* the largest k with a nonzero k x k minor
TrueRank(M) ==
    IF Len(M) = 0 THEN 0
    ELSE LET HasMinor(k) ==
                 \E rs \in SUBSET (1..Len(M)), cs \in SUBSET (1..Len(M[1])) :
                     /\ Cardinality(rs) = k
                     /\ Cardinality(cs) = k
                     /\ Det(SubMatrix(M, SetToSeq(rs), SetToSeq(cs))) # 0
             ks == {k \in 0..Min(Len(M), Len(M[1])) : HasMinor(k)}
         IN  CHOOSE k \in ks : \A m \in ks : m <= k

\* [A|b] with A square
IsSquareSystem(M) == Len(M) > 0 /\ Len(M[1]) = Len(M) + 1

Coefficients(M) == [r \in 1..Len(M) |-> SubSeq(M[r], 1, Len(M[r]) - 1)]

\* sum of row[c] * x[c] over the unknowns 1..upto
RECURSIVE Dot(_, _, _)
Dot(row, x, upto) ==
    IF upto = 0 THEN Zero
    ELSE RAdd(Dot(row, x, upto - 1), RMul(Rat(row[upto]), x[upto]))

\* x solves the system of the integer augmented matrix M
Solves(M, x) ==
    /\ Len(x) = Len(M[1]) - 1
    /\ \A r \in 1..Len(M) : Dot(M[r], x, Len(x)) = Rat(M[r][Len(M[r])])

\* a swap of rows a and b in every column
FullSwap(M, a, b) ==
    [r \in 1..Len(M) |-> IF r = a THEN M[b] ELSE IF r = b THEN M[a] ELSE M[r]]

\* every row from row `from` on is zero left of column col
ZeroLeftOf(M, from, col) ==
    \A r \in from..Len(M) : \A c \in 1..(col - 1) : IsZero(M[r][c])

\* every row below row d is zero in column d
ClearBelow(M, d) == \A k \in (d + 1)..Len(M) : IsZero(M[k][d])

\* ------------------------------------------------------------- claims

\* C1: for a square full-rank integer matrix A and any integer vector b,
\* gauss_eliminate([A|b]) returns the vector x of length n with A*x = b.
C1_GaussSolvesFullRank ==
    (Done("gauss_eliminate") /\ IsSquareSystem(A) /\ Det(Coefficients(A)) # 0)
        => (ret.kind = "vector" /\ Solves(A, ret.vec))

\* a 2 x 2 system that needs its rows exchanged, solved by x = (-1, 1)
C1_Witness ==
    /\ Done("gauss_eliminate")
    /\ A = <<<<0, 1, 1>>, <<1, 1, 0>>>>
    /\ ret = VecRet(<<<<-1, 1>>, <<1, 1>>>>)

\* C8: in the matrix row_echelon_form returns, a row with a nonzero diagonal
\* entry L[i][i] has only zeros below it in column i; and after pivot step i
\* a zero pivot L[i][i] has no nonzero entry below it in column i.
C8_ClearBelowPivots ==
    /\ (RefReturned /\ R.kind = "matrix") =>
           \A d \in 1..Min(NumRows(R.mat), NumCols(R.mat)) :
               ~IsZero(R.mat[d][d]) => ClearBelow(R.mat, d)
    /\ pc = "pivot" =>
           \A d \in 1..(i - 1) : IsZero(L[d][d]) => ClearBelow(L, d)

\* a returned matrix that lost a duplicate row and has a nonzero pivot with
\* a row below it
C8_Witness ==
    /\ Done("row_echelon_form")
    /\ R.kind = "matrix"
    /\ Len(R.mat) < Len(A)
    /\ Len(R.mat) >= 2
    /\ ~IsZero(R.mat[1][1])

\* C9: at every pivot step i the exchange of columns i.. of rows i and
\* max_row is a swap of the whole rows, because every row from i on is zero
\* in every column before i.
C9_SwapIsFullRowSwap ==
    (pc = "pivot" /\ i <= Min(NumCols(L), NumRows(L))) =>
        /\ ZeroLeftOf(L, i, i)
        /\ SwapRows(L, i, MaxRow(L, i)) = FullSwap(L, i, MaxRow(L, i))

\* a pivot step past the first column that exchanges two different rows
C9_Witness ==
    /\ pc = "pivot"
    /\ i = 2
    /\ NumRows(L) >= 3
    /\ NumCols(L) >= 3
    /\ MaxRow(L, i) = 3
    /\ L[2] # L[3]

\* C10: no division of row_echelon_form or of solve_row_echelon_form has a
\* zero divisor.
C10_NoDivisionByZero == ret.kind # "ZeroDivisionError"

\* gauss_eliminate met a zero pivot in the reducer and a zero diagonal entry
\* in the solver, and divided in the solver
C10_Witness ==
    /\ Done("gauss_eliminate")
    /\ A = <<<<0, 1, 1>>, <<0, 1, 0>>>>
    /\ R = MatRet(ToRat(A))
    /\ ret = VecRet(<<Zero>>)

\* the rows of M that equal no earlier row, in order
RECURSIVE FirstOccurrences(_, _)
FirstOccurrences(M, k) ==
    IF k > Len(M) THEN <<>>
    ELSE IF \E j \in 1..(k - 1) : M[j] = M[k]
         THEN FirstOccurrences(M, k + 1)
         ELSE <<M[k]>> \o FirstOccurrences(M, k + 1)

NoTwoRowsEqual(M) == \A j, k \in 1..Len(M) : j # k => M[j] # M[k]

RowIsZero(row) == \A c \in 1..Len(row) : IsZero(row[c])

\* column of the first nonzero entry of a nonzero row
Lead(row) ==
    CHOOSE c \in 1..Len(row) :
        ~IsZero(row[c]) /\ \A d \in 1..(c - 1) : IsZero(row[d])

IsRowEchelon(M) ==
    \A above, below \in 1..Len(M) :
        (above < below /\ ~RowIsZero(M[above]) /\ ~RowIsZero(M[below]))
            => Lead(M[above]) < Lead(M[below])

\* C2: with zero rows, row_echelon_form, solve_row_echelon_form and
\* gauss_eliminate return None and rank returns 0; none ends in an exception.
C2_EmptyInputReturnsSentinel ==
    (pc = "done" /\ Len(A) = 0 /\ fn \in CallsReducer \cup {"solve_row_echelon_form"})
        => ret = (IF fn = "rank" THEN IntRet(0) ELSE NoneRet)

\* C3: remove_duplicate_row_echelon_form returns the first occurrence of each
\* distinct row in the original order: no two rows of the result are equal
\* and a second application changes nothing.
C3_DedupKeepsFirstOccurrences ==
    Done("remove_duplicate_row_echelon_form") =>
        /\ ret.mat = FirstOccurrences(ToRat(A), 1)
        /\ NoTwoRowsEqual(ret.mat)
        /\ remove_duplicate_row_echelon_form(ret.mat) = ret.mat

\* C4: rank(A) is the rank of A, the largest number of linearly independent
\* rows of A.
C4_RankIsTheRank == Done("rank") => ret = IntRet(TrueRank(A))

\* C5: solve_row_echelon_form returns a vector when, after the synthetic
\* rows went in, num_rows == num_cols - 2, no unknown column is all zero and
\* no row has an even sum over the unknown columns.
C5_OneShortReturnsVector ==
    (/\ Done("solve_row_echelon_form")
     /\ Len(A) > 0
     /\ LET M == WithSyntheticRows(L)
        IN  /\ NumRows(M) = NumCols(M) - 2
            /\ \A col \in 1..(NumCols(M) - 1) : ~ColumnIsZero(M, col)
            /\ Len(EvenRows(M, 1)) = 0)
        => ret.kind = "vector"

\* C6: for a non-empty input the vector solve_row_echelon_form returns has
\* one entry for each of the num_cols - 1 unknowns.
C6_VectorHasOneEntryPerUnknown ==
    (Done("solve_row_echelon_form") /\ Len(A) > 0 /\ ret.kind = "vector")
        => Len(ret.vec) = NumCols(A) - 1

\* C7: the matrix row_echelon_form returns for a non-empty input is in
\* row-echelon form: the leading nonzero entry of each nonzero row is in a
\* strictly later column than that of every nonzero row above it.
C7_OutputIsRowEchelon ==
    (Done("row_echelon_form") /\ Len(A) > 0) =>
        (ret.kind = "matrix" /\ IsRowEchelon(ret.mat))

====
